---- MODULE Spec2Model ----
(***************************************************************************)
(* A model of DB::ReplicasConnections                                      *)
(* (dbms/src/Client/ReplicasConnections.cpp): the coordinator that reads   *)
(* one logical packet stream from several replica connections.             *)
(*                                                                         *)
(* The coordinator is single threaded.  receivePacket is modelled step by  *)
(* step (pc), because the reads it makes from a connection may block; the  *)
(* broadcast operations are one step each.  The connections and the        *)
(* socket poll are the environment: a connection delivers the packets of   *)
(* its stream one per read; the type of each packet is the server's        *)
(* choice, and so is whether a terminal packet is the last of the stream.  *)
(* A read from a stream that delivers nothing more blocks.                 *)
(***************************************************************************)
EXTENDS Integers, Sequences, FiniteSets, TLC

\* ---- bounds of the model ----
NReplicas == 3      \* entries.size() returned by pool->getMany
MaxPackets == 5     \* packets the servers deliver in total
MaxCalls == 2       \* disconnect() calls the caller makes in a row

\* ---- program constants ----
NoReplica == 0      \* Replica * res = nullptr

Replicas == 1..NReplicas    \* replica_hash, in its iteration order

Streamable == {"Data", "Progress", "ProfileInfo", "Totals", "Extremes"}
Terminal == {"EndOfStream", "Exception"}
\* the packet types the servers of the model send; "Pong" is a type the
\* switch of receivePacket does not list
PacketTypes == {"Data", "EndOfStream", "Exception", "Pong"}

NoPacket == [type |-> "none", rep |-> NoReplica, pos |-> 0]

VARIABLES
    \* Replica fields
    is_valid,                   \* replica.is_valid
    can_read,                   \* replica.can_read
    replica_next_packet_number, \* replica.next_packet_number
    \* ReplicasConnections fields
    valid_replicas_count,
    next_packet_number,
    \* receivePacket in progress
    pc,         \* "idle", "pick", "recv", "drain", "decide"
    cur,        \* Replica & replica = pickConnection()
    retry,      \* bool retry
    packet,     \* the packet read by the receive loop
    drain_it,   \* position of the loop of drainResidualPackets
    drained,    \* packet types the running drain has consumed, per replica
    polled,     \* the last pickConnection of the running call made a poll (select)
    \* what the caller has seen
    result,     \* outcome of the last operation
    ret,        \* the last packet returned by receivePacket
    returned,   \* number of packets returned by receivePacket
    unrecognized, \* replicas that sent a packet of unrecognized type while
                \* another replica was valid
    \* connections
    conn_pos,   \* packets consumed from each connection's stream
    stream_end, \* the stream has ended: its terminal packet has been consumed
                \* and the server sends nothing more
    \* what the current (or last) operation has sent to each connection
    cancels,    \* Connection::sendCancel calls
    queries,    \* Connection::sendQuery calls
    ext_data,   \* payload given to Connection::sendExternalTablesData, 0: none
    \* disconnect() calls made in a row
    disc_run,   \* Connection::disconnect calls they made, per connection
    disc_calls, \* their number
    \* the last poll and the last operation, as the caller's harness sees them
    poll_ready, \* sockets the last select left in read_list
    poll_n,     \* value the last waitForReadEvent returned
    last_op,    \* name of the operation called last
    data_len    \* size of the list given to the last sendExternalTablesData,
                \* -1 when the last operation was another one

replica_vars == <<is_valid, can_read, replica_next_packet_number>>
coord_vars == <<valid_replicas_count, next_packet_number>>
call_vars == <<pc, cur, retry, packet, drain_it, drained, polled>>
caller_vars == <<result, ret, returned, unrecognized>>
conn_vars == <<conn_pos, stream_end, cancels, queries, ext_data, disc_run, disc_calls>>
poll_vars == <<poll_ready, poll_n>>
op_vars == <<last_op, data_len>>
vars == <<replica_vars, coord_vars, call_vars, caller_vars, conn_vars, poll_vars, op_vars>>

\* ---- the environment: connections and poll ----

\* packets consumed from the connections of replicas 1..i
RECURSIVE Delivered(_)
Delivered(i) == IF i = 0 THEN 0 ELSE conn_pos[i] + Delivered(i - 1)

\* a read from the connection of r returns (a packet is or will be there)
Readable(r) == ~stream_end[r] /\ Delivered(NReplicas) < MaxPackets

\* whether the stream has ended after a packet of type t, which the server
\* meant as its last one or not
StreamEndAfter(t, last) == last /\ t \in Terminal

\* ---- constructor ----
Init ==
    /\ is_valid = [r \in Replicas |-> TRUE]
    /\ can_read = [r \in Replicas |-> FALSE]
    /\ replica_next_packet_number = [r \in Replicas |-> 0]
    /\ valid_replicas_count = NReplicas
    /\ next_packet_number = 0
    /\ pc = "idle"
    /\ cur = NoReplica
    /\ retry = FALSE
    /\ packet = NoPacket
    /\ drain_it = NReplicas + 1
    /\ drained = [r \in Replicas |-> <<>>]
    /\ polled = FALSE
    /\ result = "none"
    /\ ret = NoPacket
    /\ returned = 0
    /\ unrecognized = {}
    /\ conn_pos = [r \in Replicas |-> 0]
    /\ stream_end = [r \in Replicas |-> FALSE]
    /\ cancels = [r \in Replicas |-> 0]
    /\ queries = [r \in Replicas |-> 0]
    /\ ext_data = [r \in Replicas |-> 0]
    /\ disc_run = [r \in Replicas |-> 0]
    /\ disc_calls = 0
    /\ poll_ready = {}
    /\ poll_n = 0
    /\ last_op = "none"
    /\ data_len = -1

\* ---- waitForReadEvent ----

FastPath_never(count) == FALSE

\* if (valid_replicas_count == 0) return 0;
FastPath(count) == count = 0

\* the sockets put in read_list
ReadList == {r \in Replicas : is_valid[r]}

WaitCanRead_sticky(ready) == [r \in Replicas |-> can_read[r] \/ r \in ready]

\* can_read after the poll: reset for all, set for the sockets left in
\* read_list by select
WaitCanRead(ready) == [r \in Replicas |-> r \in ready]

\* int n = Socket::select(...): the number of sockets left in read_list
WaitReturn(ready) == Cardinality(ready)

\* ---- pickConnection ----

RECURSIVE PickLoop_first(_, _, _, _)
PickLoop_first(i, cr, max_packet_number, res) ==
    IF i > NReplicas THEN res
    ELSE IF cr[i] /\ res = NoReplica
         THEN PickLoop_first(i + 1, cr, replica_next_packet_number[i], i)
         ELSE PickLoop_first(i + 1, cr, max_packet_number, res)

\* the loop over replica_hash that keeps the readable replica with the
\* largest next_packet_number
RECURSIVE PickLoop(_, _, _, _)
PickLoop(i, cr, max_packet_number, res) ==
    IF i > NReplicas THEN res
    ELSE IF cr[i] /\ replica_next_packet_number[i] > max_packet_number
         THEN PickLoop(i + 1, cr, replica_next_packet_number[i], i)
         ELSE PickLoop(i + 1, cr, max_packet_number, res)

PickRes_fallback(n, cr) ==
    IF n > 0 THEN PickLoop(1, cr, -1, NoReplica) ELSE PickLoop(1, is_valid, -1, NoReplica)

\* res of pickConnection: nullptr unless the poll reported a readable replica
PickRes(n, cr) == IF n > 0 THEN PickLoop(1, cr, -1, NoReplica) ELSE NoReplica

\* ---- receivePacket ----

OnPacket_nodec(type, count) ==
    IF type \in Streamable
    THEN [valid |-> TRUE, count |-> count, retry |-> FALSE, cancel_drain |-> FALSE]
    ELSE IF type \in Terminal
    THEN [valid |-> FALSE, count |-> count, retry |-> FALSE, cancel_drain |-> TRUE]
    ELSE [valid |-> FALSE, count |-> count - 1, retry |-> count - 1 > 0, cancel_drain |-> FALSE]

OnPacket_noretry(type, count) ==
    IF type \in Streamable
    THEN [valid |-> TRUE, count |-> count, retry |-> FALSE, cancel_drain |-> FALSE]
    ELSE IF type \in Terminal
    THEN [valid |-> FALSE, count |-> count - 1, retry |-> FALSE, cancel_drain |-> TRUE]
    ELSE [valid |-> FALSE, count |-> count - 1, retry |-> FALSE, cancel_drain |-> FALSE]

OnPacket_fallthrough(type, count) ==
    IF type \in Streamable \cup Terminal
    THEN [valid |-> FALSE, count |-> count - 1, retry |-> FALSE, cancel_drain |-> TRUE]
    ELSE [valid |-> FALSE, count |-> count - 1, retry |-> count - 1 > 0, cancel_drain |-> FALSE]

OnPacket_keepvalid(type, count) ==
    IF type \in Streamable
    THEN [valid |-> TRUE, count |-> count, retry |-> FALSE, cancel_drain |-> FALSE]
    ELSE IF type \in Terminal
    THEN [valid |-> FALSE, count |-> count - 1, retry |-> FALSE, cancel_drain |-> TRUE]
    ELSE [valid |-> TRUE, count |-> count, retry |-> count > 0, cancel_drain |-> FALSE]

OnPacket_retryalways(type, count) ==
    IF type \in Streamable
    THEN [valid |-> TRUE, count |-> count, retry |-> FALSE, cancel_drain |-> FALSE]
    ELSE IF type \in Terminal
    THEN [valid |-> FALSE, count |-> count - 1, retry |-> FALSE, cancel_drain |-> TRUE]
    ELSE [valid |-> FALSE, count |-> count - 1, retry |-> TRUE, cancel_drain |-> FALSE]

\* the switch on packet.type: what becomes of the replica, of the count and
\* of retry, and whether sendCancel and drainResidualPackets are called
OnPacket(type, count) ==
    IF type \in Streamable
    THEN [valid |-> TRUE, count |-> count, retry |-> FALSE, cancel_drain |-> FALSE]
    ELSE IF type \in Terminal
    THEN [valid |-> FALSE, count |-> count - 1, retry |-> FALSE, cancel_drain |-> TRUE]
    ELSE [valid |-> FALSE, count |-> count - 1, retry |-> count - 1 > 0, cancel_drain |-> FALSE]

AdvanceCounters_always(rn, gn, rt) ==
    IF rn = gn /\ ~rt
    THEN [replica |-> rn + 1, global |-> gn + 1, return |-> TRUE]
    ELSE [replica |-> rn + 1, global |-> gn + 1, return |-> FALSE]

AdvanceCounters_le(rn, gn, rt) ==
    IF rn <= gn /\ ~rt
    THEN [replica |-> rn + 1, global |-> gn + 1, return |-> TRUE]
    ELSE [replica |-> rn + 1, global |-> gn, return |-> FALSE]

\* the if after the switch
AdvanceCounters(rn, gn, rt) ==
    IF rn = gn /\ ~rt
    THEN [replica |-> rn + 1, global |-> gn + 1, return |-> TRUE]
    ELSE [replica |-> rn + 1, global |-> gn, return |-> FALSE]

\* ---- sendCancel, disconnect ----
DisconnectTargets_all(valid) == Replicas

SendCancelTargets(valid) == {r \in Replicas : valid[r]}
DisconnectTargets(valid) == {r \in Replicas : valid[r]}

\* ---- sendExternalTablesData ----

\* if (data.size() != replica_hash.size()) throw
SizeMismatch(size) == size # Cardinality(Replicas)

ExternalTablesSent_valid(data) == [r \in Replicas |-> IF is_valid[r] THEN data[r] ELSE 0]

\* the payload each connection is given: the loop walks replica_hash and
\* data together
ExternalTablesSent(data) == [r \in Replicas |-> data[r]]

\* ---- drainResidualPackets ----
DrainTargets_all(valid) == Replicas

\* the replicas the loop of the drain reads from
DrainTargets(valid) == {r \in Replicas : valid[r]}
DrainAgain_eos(type) == type # "EndOfStream"

\* bool again after a packet of this type
DrainAgain(type) == type \in Streamable

\* the next replica the loop of the drain reads from, at or after i
RECURSIVE NextDrain(_, _)
NextDrain(i, valid) ==
    IF i > NReplicas THEN NReplicas + 1
    ELSE IF i \in DrainTargets(valid) THEN i
    ELSE NextDrain(i + 1, valid)

\* ---- actions ----

ReceivePacket_Call ==
    /\ pc = "idle"
    /\ pc' = "pick"
    /\ polled' = FALSE
    /\ result' = "none"
    /\ ret' = NoPacket
    /\ cancels' = [r \in Replicas |-> 0]
    /\ queries' = [r \in Replicas |-> 0]
    /\ ext_data' = [r \in Replicas |-> 0]
    /\ disc_run' = [r \in Replicas |-> 0]
    /\ disc_calls' = 0
    /\ last_op' = "receivePacket"
    /\ data_len' = -1
    /\ UNCHANGED <<replica_vars, coord_vars, cur, retry, packet, drain_it, drained,
                   returned, unrecognized, conn_pos, stream_end, poll_vars>>

PickStep(poll, ready) ==
    LET cr == IF poll THEN WaitCanRead(ready) ELSE can_read
        n == IF poll THEN WaitReturn(ready) ELSE 0
        res == PickRes(n, cr)
    IN /\ can_read' = cr
       /\ polled' = poll
       /\ poll_ready' = IF poll THEN ready ELSE poll_ready
       /\ poll_n' = n
       /\ IF res = NoReplica
          THEN /\ pc' = "idle"
               /\ result' = "NoAvailableReplica"
               /\ cur' = NoReplica
               /\ packet' = NoPacket
               /\ UNCHANGED retry
          ELSE /\ pc' = "recv"
               /\ cur' = res
               /\ retry' = FALSE
               /\ UNCHANGED <<result, packet>>
       /\ UNCHANGED <<is_valid, replica_next_packet_number, coord_vars,
                      drain_it, drained, ret, returned, unrecognized, conn_vars, op_vars>>

PickConnection ==
    /\ pc = "pick"
    /\ IF FastPath(valid_replicas_count)
       THEN PickStep(FALSE, {})
       ELSE \E ready \in SUBSET {r \in ReadList : Readable(r)} : PickStep(TRUE, ready)

\* while (replica.is_valid) is false: back to pickConnection
RecvLoopExit ==
    /\ pc = "recv"
    /\ ~is_valid[cur]
    /\ pc' = "pick"
    /\ UNCHANGED <<replica_vars, coord_vars, cur, retry, packet, drain_it, drained,
                   polled, caller_vars, conn_vars, poll_vars, op_vars>>

\* one pass of the inner loop up to the end of the switch
RecvPacket ==
    /\ pc = "recv"
    /\ is_valid[cur]
    /\ Readable(cur)
    /\ \E t \in PacketTypes, last \in BOOLEAN :
        LET on == OnPacket(t, valid_replicas_count)
            valid1 == [is_valid EXCEPT ![cur] = on.valid]
            first == NextDrain(1, valid1)
        IN /\ packet' = [type |-> t, rep |-> cur, pos |-> conn_pos[cur]]
           /\ conn_pos' = [conn_pos EXCEPT ![cur] = @ + 1]
           /\ stream_end' = [stream_end EXCEPT ![cur] = StreamEndAfter(t, last)]
           /\ is_valid' = valid1
           /\ valid_replicas_count' = on.count
           /\ retry' = on.retry
           /\ unrecognized' = IF t \notin Streamable \cup Terminal /\ valid_replicas_count > 1
                               THEN unrecognized \cup {cur} ELSE unrecognized
           /\ IF on.cancel_drain
              THEN /\ cancels' = [r \in Replicas |->
                          IF r \in SendCancelTargets(valid1) THEN cancels[r] + 1 ELSE cancels[r]]
                   /\ drained' = [r \in Replicas |-> <<>>]
                   /\ drain_it' = first
                   /\ pc' = IF first > NReplicas THEN "decide" ELSE "drain"
              ELSE /\ pc' = "decide"
                   /\ UNCHANGED <<cancels, drained, drain_it>>
    /\ UNCHANGED <<can_read, replica_next_packet_number, next_packet_number, cur, polled,
                   result, ret, returned, queries, ext_data, disc_run, disc_calls,
                   poll_vars, op_vars>>

\* one read of the loop of drainResidualPackets
DrainPacket ==
    /\ pc = "drain"
    /\ drain_it \in Replicas
    /\ Readable(drain_it)
    /\ \E t \in PacketTypes, last \in BOOLEAN :
        LET nxt == IF DrainAgain(t) THEN drain_it ELSE NextDrain(drain_it + 1, is_valid)
        IN /\ conn_pos' = [conn_pos EXCEPT ![drain_it] = @ + 1]
           /\ stream_end' = [stream_end EXCEPT ![drain_it] = StreamEndAfter(t, last)]
           /\ drained' = [drained EXCEPT ![drain_it] = Append(@, t)]
           /\ drain_it' = nxt
           /\ pc' = IF nxt > NReplicas THEN "decide" ELSE "drain"
    /\ UNCHANGED <<replica_vars, coord_vars, cur, retry, packet, polled, caller_vars,
                   cancels, queries, ext_data, disc_run, disc_calls, poll_vars, op_vars>>

\* the if after the switch: return the packet or go round the inner loop
Decide ==
    /\ pc = "decide"
    /\ LET adv == AdvanceCounters(replica_next_packet_number[cur], next_packet_number, retry)
       IN /\ replica_next_packet_number' = [replica_next_packet_number EXCEPT ![cur] = adv.replica]
          /\ next_packet_number' = adv.global
          /\ IF adv.return
             THEN /\ pc' = "idle"
                  /\ result' = "packet"
                  /\ ret' = packet
                  /\ returned' = returned + 1
                  /\ cur' = NoReplica
                  /\ packet' = NoPacket
                  /\ UNCHANGED retry
             ELSE /\ pc' = "recv"
                  /\ retry' = FALSE
                  /\ UNCHANGED <<result, ret, returned, cur, packet>>
    /\ drained' = [r \in Replicas |-> <<>>]
    /\ drain_it' = NReplicas + 1
    /\ UNCHANGED <<is_valid, can_read, valid_replicas_count, polled, unrecognized, conn_vars,
                   poll_vars, op_vars>>

SendQuery ==
    /\ pc = "idle"
    /\ queries' = [r \in Replicas |-> 1]
    /\ result' = "ok"
    /\ ret' = NoPacket
    /\ cancels' = [r \in Replicas |-> 0]
    /\ ext_data' = [r \in Replicas |-> 0]
    /\ disc_run' = [r \in Replicas |-> 0]
    /\ disc_calls' = 0
    /\ last_op' = "sendQuery"
    /\ data_len' = -1
    /\ UNCHANGED <<replica_vars, coord_vars, call_vars, returned, unrecognized,
                   conn_pos, stream_end, poll_vars>>

Disconnect ==
    /\ pc = "idle"
    /\ disc_calls < MaxCalls
    /\ disc_run' = [r \in Replicas |->
            IF r \in DisconnectTargets(is_valid) THEN disc_run[r] + 1 ELSE disc_run[r]]
    /\ disc_calls' = disc_calls + 1
    /\ result' = "ok"
    /\ ret' = NoPacket
    /\ cancels' = [r \in Replicas |-> 0]
    /\ queries' = [r \in Replicas |-> 0]
    /\ ext_data' = [r \in Replicas |-> 0]
    /\ last_op' = "disconnect"
    /\ data_len' = -1
    /\ UNCHANGED <<replica_vars, coord_vars, call_vars, returned, unrecognized,
                   conn_pos, stream_end, poll_vars>>

SendCancel ==
    /\ pc = "idle"
    /\ cancels' = [r \in Replicas |-> IF r \in SendCancelTargets(is_valid) THEN 1 ELSE 0]
    /\ result' = "ok"
    /\ ret' = NoPacket
    /\ queries' = [r \in Replicas |-> 0]
    /\ ext_data' = [r \in Replicas |-> 0]
    /\ disc_run' = [r \in Replicas |-> 0]
    /\ disc_calls' = 0
    /\ last_op' = "sendCancel"
    /\ data_len' = -1
    /\ UNCHANGED <<replica_vars, coord_vars, call_vars, returned, unrecognized,
                   conn_pos, stream_end, poll_vars>>

\* data is a list of size payloads, the i-th one being payload i
SendExternalTablesData ==
    /\ pc = "idle"
    /\ \E size \in (NReplicas - 1)..(NReplicas + 1) :
        /\ data_len' = size
        /\ IF SizeMismatch(size)
           THEN /\ result' = "MismatchReplicasDataSources"
                /\ ext_data' = [r \in Replicas |-> 0]
           ELSE /\ result' = "ok"
                /\ ext_data' = ExternalTablesSent([i \in 1..size |-> i])
    /\ ret' = NoPacket
    /\ cancels' = [r \in Replicas |-> 0]
    /\ queries' = [r \in Replicas |-> 0]
    /\ disc_run' = [r \in Replicas |-> 0]
    /\ disc_calls' = 0
    /\ last_op' = "sendExternalTablesData"
    /\ UNCHANGED <<replica_vars, coord_vars, call_vars, returned, unrecognized,
                   conn_pos, stream_end, poll_vars>>

Next ==
    \/ ReceivePacket_Call
    \/ PickConnection
    \/ RecvLoopExit
    \/ RecvPacket
    \/ DrainPacket
    \/ Decide
    \/ SendQuery
    \/ Disconnect
    \/ SendCancel
    \/ SendExternalTablesData

Spec == Init /\ [][Next]_vars

TypeOK ==
    /\ valid_replicas_count \in 0..NReplicas
    /\ pc \in {"idle", "pick", "recv", "drain", "decide"}
    /\ cur \in 0..NReplicas

\* ---- properties ----

\* the receive loop reads a packet in this step
ReadsPacket == pc = "recv" /\ packet' # packet

\* C1: the packet returned by the k-th successful receivePacket call (k from
\* 0) is the packet at position k of the stream of the replica it was read
\* from
C1_Claim == ret # NoPacket => ret.pos = returned - 1

\* C2: valid_replicas_count equals the number of replicas whose is_valid is
\* true, in every reachable state
C2_Theorem == valid_replicas_count = Cardinality({r \in Replicas : is_valid[r]})

C2_Witness ==
    /\ result = "packet"
    /\ valid_replicas_count = 1
    /\ \E r \in Replicas : ~is_valid[r]

\* what a drain has consumed from a replica: streamable packets and then one
\* EndOfStream, Exception or unrecognized packet
DrainedToStop(seq) ==
    /\ Len(seq) >= 1
    /\ seq[Len(seq)] \notin Streamable
    /\ \A i \in 1..(Len(seq) - 1) : seq[i] \in Streamable

\* C3: when the receive loop reads an EndOfStream or Exception packet from a
\* replica, that replica becomes invalid, the count is decremented once,
\* sendCancel goes to exactly the other valid replicas, and before the call
\* goes on (to return or fail) the drain has consumed the stream of each of
\* them up to and including its first packet that is not streamable
C3_Theorem ==
    /\ [][(ReadsPacket /\ packet'.type \in Terminal) =>
            /\ ~is_valid'[cur]
            /\ valid_replicas_count' = valid_replicas_count - 1
            /\ \A o \in Replicas :
                cancels'[o] = cancels[o] + (IF o # cur /\ is_valid[o] THEN 1 ELSE 0)
            /\ pc' \in {"drain", "decide"}]_vars
    /\ [][pc = "drain" => pc' \in {"drain", "decide"}]_vars
    /\ []((pc = "decide" /\ packet.type \in Terminal) =>
            /\ ~is_valid[cur]
            /\ \A o \in Replicas \ {cur} : is_valid[o] => DrainedToStop(drained[o]))

C3_Witness ==
    /\ pc = "decide"
    /\ packet.type = "Exception"
    /\ \E o \in Replicas : is_valid[o] /\ Len(drained[o]) >= 2

\* C4: when the receive loop reads a packet of unrecognized type from a
\* replica while another replica is valid, the replica becomes invalid,
\* nothing is cancelled or drained, the packet is not returned, and every
\* packet returned afterwards is read from another replica, valid when read
C4_Theorem ==
    /\ [][(ReadsPacket /\ packet'.type \notin Streamable \cup Terminal /\ valid_replicas_count > 1) =>
            /\ ~is_valid'[cur]
            /\ cancels' = cancels
            /\ drained' = drained
            /\ \A o \in Replicas \ {cur} : conn_pos'[o] = conn_pos[o]
            /\ pc' = "decide"
            /\ retry']_vars
    /\ [][(pc = "decide" /\ retry) => (returned' = returned /\ ret' = ret /\ pc' = "recv")]_vars
    /\ [][ReadsPacket => is_valid[cur]]_vars
    /\ [](ret # NoPacket => ret.rep \notin unrecognized)
    /\ [](\A r \in unrecognized : ~is_valid[r])

C4_Witness ==
    /\ unrecognized # {}
    /\ result = "packet"
    /\ ret.pos >= 1

\* C5: the global next_packet_number equals the number of packets
\* receivePacket has returned so far
C5_Theorem == next_packet_number = returned

C5_Witness ==
    /\ result = "NoAvailableReplica"
    /\ returned >= 1
    /\ \E r \in Replicas : conn_pos[r] > returned

\* C6: the replica pickConnection returns has can_read set by the poll just
\* made and its next_packet_number is at least that of every other replica
\* with can_read set
C6_Theorem ==
    [][(pc = "pick" /\ pc' = "recv") =>
        /\ polled'
        /\ can_read'[cur']
        /\ \A o \in Replicas : can_read'[o] =>
              replica_next_packet_number[cur'] >= replica_next_packet_number[o]]_vars

C6_Witness ==
    /\ pc = "recv"
    /\ packet = NoPacket
    /\ \E o \in Replicas :
        /\ o < cur
        /\ can_read[o]
        /\ is_valid[cur]
        /\ replica_next_packet_number[o] < replica_next_packet_number[cur]

\* C7: once valid_replicas_count is 0 between calls, it stays 0, a
\* receivePacket call fails with NoAvailableReplica without a poll and
\* without a read from any connection, and no packet is returned any more
C7_Theorem ==
    [][(valid_replicas_count = 0 /\ pc \in {"idle", "pick"}) =>
        /\ valid_replicas_count' = 0
        /\ returned' = returned
        /\ conn_pos' = conn_pos
        /\ pc' \in {"idle", "pick"}
        /\ result' # "packet"
        /\ pc = "pick" =>
            /\ pc' = "idle"
            /\ result' = "NoAvailableReplica"
            /\ ~polled'
            /\ can_read' = can_read]_vars

C7_Witness ==
    /\ pc = "idle"
    /\ valid_replicas_count = 0
    /\ result = "NoAvailableReplica"

\* C8: once every replica's stream has ended with a terminal packet that the
\* coordinator has consumed, valid_replicas_count is 0
C8_Claim ==
    (pc = "idle" /\ \A r \in Replicas : stream_end[r]) => valid_replicas_count = 0

\* C9: two disconnect() calls in a row make at most one Connection::disconnect
\* call on each connection
C9_Claim == disc_calls = 2 => \A r \in Replicas : disc_run[r] <= 1

\* C10: a poll of pickConnection that reports no ready replica, valid replicas
\* existing, ends the receivePacket call with NoAvailableReplica at once and
\* leaves is_valid, valid_replicas_count and next_packet_number as they were
C10_Theorem ==
    [][(pc = "pick" /\ valid_replicas_count > 0 /\ polled' /\ \A r \in Replicas : ~can_read'[r]) =>
        /\ pc' = "idle"
        /\ result' = "NoAvailableReplica"
        /\ is_valid' = is_valid
        /\ valid_replicas_count' = valid_replicas_count
        /\ next_packet_number' = next_packet_number
        /\ replica_next_packet_number' = replica_next_packet_number
        /\ conn_pos' = conn_pos]_vars

C10_Witness ==
    /\ pc = "idle"
    /\ result = "NoAvailableReplica"
    /\ polled
    /\ valid_replicas_count > 0
    /\ returned >= 1
    /\ \A r \in Replicas : ~can_read[r]

\* C11: sendExternalTablesData with a list whose size is not the number of
\* replicas fails with MismatchReplicasDataSources and sends nothing; with a
\* list of that size it gives the i-th payload to the i-th replica's
\* connection, valid or not
C11_Theorem ==
    data_len # -1 =>
        IF data_len # NReplicas
        THEN /\ result = "MismatchReplicasDataSources"
             /\ \A r \in Replicas : ext_data[r] = 0
        ELSE /\ result = "ok"
             /\ \A r \in Replicas : ext_data[r] = r

C11_Witness ==
    /\ data_len = NReplicas
    /\ \E r \in Replicas : ~is_valid[r] /\ ext_data[r] = r

\* C12: is_valid of a replica only goes from true to false, and only in the
\* step in which the receive loop reads an EndOfStream, Exception or
\* unrecognized packet from that replica
C12_Theorem ==
    [][\A r \in Replicas :
        /\ ~is_valid[r] => ~is_valid'[r]
        /\ (is_valid[r] /\ ~is_valid'[r]) =>
            /\ ReadsPacket
            /\ cur = r
            /\ packet'.rep = r
            /\ packet'.type \notin Streamable]_vars

C12_Witness ==
    /\ last_op = "sendQuery"
    /\ \E r \in unrecognized : ~is_valid[r]
    /\ \E r \in Replicas \ unrecognized : ~is_valid[r]

\* C13: after a waitForReadEvent made while valid_replicas_count > 0,
\* can_read is true for exactly the replicas the poll reported ready, all of
\* them valid, and the value returned is the number of replicas with
\* can_read true
C13_Theorem ==
    [][(pc = "pick" /\ valid_replicas_count > 0) =>
        /\ polled'
        /\ poll_ready' \subseteq {r \in Replicas : is_valid[r]}
        /\ \A r \in Replicas : can_read'[r] <=> r \in poll_ready'
        /\ poll_n' = Cardinality({r \in Replicas : can_read'[r]})]_vars

C13_Witness ==
    /\ pc = "recv"
    /\ packet = NoPacket
    /\ returned >= 1
    /\ poll_n = 1
    /\ \E r \in Replicas : is_valid[r] /\ ~can_read[r]
    /\ \E r \in Replicas : ~is_valid[r] /\ ~can_read[r]

\* C14: between calls, next_packet_number of every replica equals the number
\* of packets consumed so far from that replica's connection
C14_Claim ==
    pc = "idle" => \A r \in Replicas : replica_next_packet_number[r] = conn_pos[r]

\* C15: a terminal packet read by the receive loop, the cancel and the drain
\* done, is returned by the same call exactly when the replica's
\* next_packet_number equals the global one; otherwise the replica is behind,
\* the packet is discarded and the call goes back to pickConnection
C15_Theorem ==
    /\ [][(pc = "decide" /\ packet.type \in Terminal) =>
            /\ ~is_valid[cur]
            /\ \A o \in Replicas \ {cur} : is_valid[o] => DrainedToStop(drained[o])
            /\ IF replica_next_packet_number[cur] = next_packet_number
               THEN /\ pc' = "idle"
                    /\ result' = "packet"
                    /\ ret' = packet
                    /\ returned' = returned + 1
               ELSE /\ replica_next_packet_number[cur] < next_packet_number
                    /\ pc' = "recv"
                    /\ result' = result
                    /\ returned' = returned]_vars
    /\ [][(pc = "recv" /\ ~is_valid[cur]) => (pc' = "pick" /\ returned' = returned)]_vars

C15_Witness ==
    /\ pc = "pick"
    /\ packet.type \in Terminal
    /\ replica_next_packet_number[packet.rep] <= next_packet_number

\* C16: a step of drainResidualPackets leaves is_valid and
\* next_packet_number of every replica, valid_replicas_count and the global
\* next_packet_number as they are, and consumes packets only from
\* connections of valid replicas
C16_Theorem ==
    [][pc = "drain" =>
        /\ is_valid' = is_valid
        /\ replica_next_packet_number' = replica_next_packet_number
        /\ valid_replicas_count' = valid_replicas_count
        /\ next_packet_number' = next_packet_number
        /\ \A r \in Replicas : conn_pos'[r] # conn_pos[r] => is_valid[r]]_vars

C16_Witness ==
    /\ pc = "drain"
    /\ \E r \in Replicas : Len(drained[r]) >= 1
    /\ \E r \in Replicas : is_valid[r] /\ Len(drained[r]) = 0

\* C17: the coordinator makes no receivePacket, sendCancel or disconnect call
\* on the connection of an invalid replica: sendCancel and disconnect reach
\* exactly the valid replicas and pickConnection returns a valid one
C17_Theorem ==
    /\ [][\A r \in Replicas : ~is_valid[r] =>
            /\ conn_pos'[r] = conn_pos[r]
            /\ cancels'[r] <= cancels[r]
            /\ disc_run'[r] <= disc_run[r]]_vars
    /\ [][(pc = "pick" /\ pc' = "recv") => is_valid[cur']]_vars
    /\ [][(last_op' = "disconnect" /\ disc_calls' = disc_calls + 1) =>
            \A r \in Replicas :
                disc_run'[r] = disc_run[r] + (IF is_valid[r] THEN 1 ELSE 0)]_vars
    /\ [](last_op = "sendCancel" =>
            \A r \in Replicas : cancels[r] = (IF is_valid[r] THEN 1 ELSE 0))

C17_Witness ==
    /\ last_op = "disconnect"
    /\ \E r \in Replicas : ~is_valid[r] /\ disc_run[r] = 0
    /\ \E r \in Replicas : is_valid[r] /\ disc_run[r] = 1

\* the running call waits for a packet from a connection that delivers none
Blocked ==
    \/ pc = "drain" /\ ~Readable(drain_it)
    \/ pc = "recv" /\ is_valid[cur] /\ ~Readable(cur)

\* C18: once every replica's stream has been delivered in full, ending with
\* a terminal packet, a receivePacket call is not left waiting for a packet:
\* it can go on to return or to fail
C18_Claim == (\A r \in Replicas : stream_end[r]) => ~Blocked

\* C19: a valid replica's next_packet_number is at most the global one; a
\* replica whose counter exceeds the global one is invalid, made so by an
\* unrecognized packet read while another replica was valid
C19_Theorem ==
    \A r \in Replicas :
        /\ is_valid[r] => replica_next_packet_number[r] <= next_packet_number
        /\ replica_next_packet_number[r] > next_packet_number =>
                (~is_valid[r] /\ r \in unrecognized)

C19_Witness ==
    /\ pc = "idle"
    /\ \E r \in Replicas : replica_next_packet_number[r] > next_packet_number

\* C20: the receive loop returns a packet of unrecognized type exactly when
\* reading it left no valid replica and the replica's next_packet_number
\* equals the global one; otherwise the packet is discarded
C20_Theorem ==
    /\ [][(pc = "decide" /\ packet.type \notin Streamable \cup Terminal) =>
            /\ ~is_valid[cur]
            /\ IF valid_replicas_count = 0
                  /\ replica_next_packet_number[cur] = next_packet_number
               THEN /\ pc' = "idle"
                    /\ result' = "packet"
                    /\ ret' = packet
               ELSE /\ pc' = "recv"
                    /\ result' = result
                    /\ ret' = ret
                    /\ returned' = returned]_vars
    /\ []((ret # NoPacket /\ ret.type \notin Streamable \cup Terminal) =>
            /\ valid_replicas_count = 0
            /\ replica_next_packet_number[ret.rep] = next_packet_number)

C20_Witness ==
    /\ result = "packet"
    /\ ret.type = "Pong"
    /\ returned >= 2
====
